---- MODULE Spec2Model ----
(***************************************************************************)
(* Model of babystat.py: class Child (construction from the WHO table of   *)
(* the child's gender, import_weight_data, calculate_child_percentiles,    *)
(* plot).                                                                  *)
(*                                                                         *)
(* Numbers.  Weights are counted in units of 0.1 kg (4.3 kg is 43) and     *)
(* dates in whole days.  A float is a record [k, n, d]: an exact fraction  *)
(* n/d in lowest terms (k = "num"), NaN (k = "nan") or a signed infinity   *)
(* (k = "inf", n = 1 or -1).  Binary rounding of the IEEE doubles is not   *)
(* modelled; NaN, infinity and division by zero are.                       *)
(***************************************************************************)
EXTENDS Integers, Sequences, FiniteSets, TLC

VARIABLES pc, gender, growth_data, fetched, weight_data, calls, panels, raised

vars == <<pc, gender, growth_data, fetched, weight_data, calls, panels, raised>>

(***************************************************************************)
(* Bounds of the model.                                                    *)
(***************************************************************************)
MaxLen == 3
MaxSessionLen == 2
NumRefDays == 14
MaxOffset == 3
MaxCalls == 2

\* dates (day numbers) and weights (0.1 kg) a weight file may hold
Dates == {0, 1, 6, 7, 13, 14}
Weights == {40, 43, 45}
SessionDates == {0, 6, 13, 14}
SessionWeights == {40, 43}
Offsets == {-MaxOffset, 0, MaxOffset}
Genders == {"male", "female", "diverse", ""}
Modes == {"WHO_only", "child_specific", "both", "none"}

(***************************************************************************)
(* Floats.                                                                 *)
(***************************************************************************)
Abs(x) == IF x < 0 THEN -x ELSE x

RECURSIVE Gcd(_, _)
Gcd(a, b) == IF b = 0 THEN a ELSE Gcd(b, a % b)

NaN == [k |-> "nan", n |-> 0, d |-> 1]
PosInf == [k |-> "inf", n |-> 1, d |-> 0]
NegInf == [k |-> "inf", n |-> -1, d |-> 0]

Num(n, d) ==
    LET s == IF d < 0 THEN -1 ELSE 1
        g == Gcd(Abs(n), Abs(d))
    IN [k |-> "num", n |-> (s * n) \div g, d |-> (s * d) \div g]

IsNum(x) == x.k = "num"
IsNaN(x) == x.k = "nan"
IsInf(x) == x.k = "inf"

\* x + y of two floats
FAdd(x, y) ==
    IF IsNaN(x) \/ IsNaN(y) THEN NaN
    ELSE IF IsInf(x) /\ IsInf(y) THEN (IF x.n = y.n THEN x ELSE NaN)
    ELSE IF IsInf(x) THEN x
    ELSE IF IsInf(y) THEN y
    ELSE Num(x.n * y.d + y.n * x.d, x.d * y.d)

\* x / m of a float by an integer, as numpy divides: no exception, a zero
\* divisor gives a signed infinity, and 0/0 gives NaN
FDiv(x, m) ==
    IF IsNaN(x) THEN NaN
    ELSE IF m = 0
         THEN (IF IsInf(x) THEN x
               ELSE IF x.n > 0 THEN PosInf
               ELSE IF x.n < 0 THEN NegInf
               ELSE NaN)
    ELSE IF IsInf(x) THEN (IF m < 0 THEN [x EXCEPT !.n = -x.n] ELSE x)
    ELSE Num(x.n, x.d * m)

\* x * m of a float by a positive integer
FMul(x, m) == IF IsNum(x) THEN Num(x.n * m, x.d) ELSE x

(***************************************************************************)
(* import_weight_data.  raw is the parsed file: a sequence of records      *)
(* [date, measured_weight].                                                *)
(***************************************************************************)

\* weight_data['date'] - weight_data['date'][0]
life_days(raw) == [i \in 1..Len(raw) |-> raw[i].date - raw[1].date]

\* the .days of every life_days entry
measurement_days(raw) == [i \in 1..Len(raw) |-> life_days(raw)[i]]

\* weight_data['measured_weight'].diff()
weight_gain_zero(raw) ==
    [i \in 1..Len(raw) |->
        IF i = 1 THEN Num(0, 1)
        ELSE Num(raw[i].measured_weight - raw[i-1].measured_weight, 1)]

weight_gain(raw) ==
    [i \in 1..Len(raw) |->
        IF i = 1 THEN NaN
        ELSE Num(raw[i].measured_weight - raw[i-1].measured_weight, 1)]

\* np.insert(np.diff(weight_data['measurement_days']), 0, 0)
day_steps(raw) ==
    [i \in 1..Len(raw) |->
        IF i = 1 THEN 0
        ELSE measurement_days(raw)[i] - measurement_days(raw)[i-1]]

\* weight_gain / day_steps * 7
daily_weight_gain_per_day(raw) ==
    [i \in 1..Len(raw) |-> FDiv(weight_gain(raw)[i], day_steps(raw)[i])]

daily_weight_gain(raw) ==
    [i \in 1..Len(raw) |-> FMul(FDiv(weight_gain(raw)[i], day_steps(raw)[i]), 7)]

(***************************************************************************)
(* weight_data.set_index('life_days').loc[begin_date:end_date]: pandas'    *)
(* label slice.  Each bound is the position of the label when the index    *)
(* holds it (the first of its occurrences on the left, one past the last   *)
(* on the right; scattered occurrences raise KeyError), and the insertion  *)
(* point of the label when the index is monotonic and does not hold it;    *)
(* otherwise KeyError.  Positions are 0-based, KeyErr stands for the       *)
(* exception.                                                              *)
(***************************************************************************)
KeyErr == -1

SetMin(S) == CHOOSE x \in S : \A y \in S : x <= y
SetMax(S) == CHOOSE x \in S : \A y \in S : x >= y

is_monotonic_increasing(idx) == \A i \in 1..(Len(idx) - 1) : idx[i] <= idx[i+1]
is_monotonic_decreasing(idx) == \A i \in 1..(Len(idx) - 1) : idx[i] >= idx[i+1]

get_loc(idx, label) == {i \in 1..Len(idx) : idx[i] = label}

IsRun(S) == S = SetMin(S)..SetMax(S)

get_slice_bound(idx, label, side) ==
    LET hits == get_loc(idx, label)
        below == Cardinality({i \in 1..Len(idx) : idx[i] < label})
        above == Cardinality({i \in 1..Len(idx) : idx[i] > label})
    IN IF hits # {}
       THEN (IF ~IsRun(hits) THEN KeyErr
             ELSE IF side = "left" THEN SetMin(hits) - 1 ELSE SetMax(hits))
       ELSE IF is_monotonic_increasing(idx) THEN below
       ELSE IF is_monotonic_decreasing(idx) THEN above
       ELSE KeyErr

\* begin_date = life_days[i] - pd.Timedelta(6, unit='d')
begin_date_7(raw, i) == life_days(raw)[i] - 7

begin_date(raw, i) == life_days(raw)[i] - 6

end_date(raw, i) == life_days(raw)[i]

\* the rows of the slice, as the set of their (1-based) positions; the
\* slice is a contiguous run of rows, <<KeyErr>> when a bound raised
subset(raw, i) ==
    LET lo == get_slice_bound(life_days(raw), begin_date(raw, i), "left")
        hi == get_slice_bound(life_days(raw), end_date(raw, i), "right")
    IN IF lo = KeyErr \/ hi = KeyErr THEN <<KeyErr>>
       ELSE [j \in 1..(IF hi > lo THEN hi - lo ELSE 0) |-> lo + j]

\* iloc[i - 1]: position -1 is the last row
PrevRow(raw, i) == IF i = 1 THEN Len(raw) ELSE i - 1

\* the condition of the if: one row in the window and the sample before
\* more than 6 days back
UseDailyRate(raw, i) ==
    /\ Len(subset(raw, i)) = 1
    /\ measurement_days(raw)[i] - measurement_days(raw)[PrevRow(raw, i)] > 6

\* Python's sum(subset['weight_gain']): 0 + v1 + v2 + ...
RECURSIVE SumSkipNaN(_, _)
SumSkipNaN(raw, rows) ==
    IF rows = <<>> THEN Num(0, 1)
    ELSE LET v == weight_gain(raw)[rows[Len(rows)]]
             rest == SumSkipNaN(raw, SubSeq(rows, 1, Len(rows) - 1))
         IN IF IsNaN(v) THEN rest ELSE FAdd(rest, v)

RECURSIVE SumGain(_, _)
SumGain(raw, rows) ==
    IF rows = <<>> THEN Num(0, 1)
    ELSE FAdd(SumGain(raw, SubSeq(rows, 1, Len(rows) - 1)),
              weight_gain(raw)[rows[Len(rows)]])

weekly_weight_gain(raw) ==
    [i \in 1..Len(raw) |->
        IF UseDailyRate(raw, i) THEN daily_weight_gain(raw)[i]
        ELSE SumGain(raw, subset(raw, i))]

\* the whole function: the returned frame, or the exception it raises
\* (an empty file has no row 0; a slice bound may raise)
import_weight_data(raw) ==
    IF Len(raw) = 0 THEN [status |-> "KeyError", frame |-> <<>>]
    ELSE IF \E i \in 1..Len(raw) : subset(raw, i) = <<KeyErr>>
         THEN [status |-> "KeyError", frame |-> <<>>]
    ELSE [status |-> "ok",
          frame |-> [i \in 1..Len(raw) |->
              [date |-> raw[i].date,
               measured_weight |-> raw[i].measured_weight,
               life_days |-> life_days(raw)[i],
               measurement_days |-> measurement_days(raw)[i],
               weight_gain |-> weight_gain(raw)[i],
               daily_weight_gain |-> daily_weight_gain(raw)[i],
               weekly_weight_gain |-> weekly_weight_gain(raw)[i]]]]

(***************************************************************************)
(* The WHO tables.  pd.read_csv(url) yields whatever the server publishes: *)
(* a table of NumRefDays rows, one per day from 0, either well formed or   *)
(* with one degenerate row (SD1neg = SD0 at DegenerateDay).                *)
(***************************************************************************)
boys_url == "http://www.who.int/childgrowth/standards/wfa_boys_z_exp.txt"
girls_url == "http://www.who.int/childgrowth/standards/wfa_girls_z_exp.txt"

DegenerateDay == 6

RefRow(url, day, degenerate) ==
    LET mean == (IF url = boys_url THEN 40 ELSE 38) + day \div 2
        sd == IF degenerate /\ day = DegenerateDay THEN 0
              ELSE IF url = boys_url THEN 5 ELSE 4
    IN [Day |-> day, SD0 |-> mean, SD1neg |-> mean - sd]

RefTable(url, degenerate) ==
    [r \in 1..NumRefDays |-> RefRow(url, r - 1, degenerate)]

read_csv(url) == {RefTable(url, b) : b \in BOOLEAN}

(***************************************************************************)
(* scipy.stats.norm.cdf(x, loc, scale).  A scale that is not positive      *)
(* gives NaN, without an exception.  Otherwise the value is Phi(z) at      *)
(* z = (x - loc) / scale; Phi is tabulated at the multiples of 0.5 up to   *)
(* 4.5 in units of 1e-5 and interpolated linearly in between, which keeps  *)
(* what the doubles keep: Phi(0) = 0.5, Phi(-z) = 1 - Phi(z), and Phi      *)
(* never decreases.                                                        *)
(***************************************************************************)
PhiUnit == 100000

PhiTab == <<50000, 69146, 84134, 93319, 97725, 99379, 99865, 99977, 99997, 100000>>

\* Phi(a / b) for a >= 0, b > 0, in units of 1 / PhiUnit
PhiUpper(a, b) ==
    LET k == (2 * a) \div b
    IN IF k >= Len(PhiTab) - 1 THEN PhiUnit
       ELSE PhiTab[k + 1] + ((PhiTab[k + 2] - PhiTab[k + 1]) * (2 * a - k * b)) \div b

norm_cdf_mirrored(x, loc, scale) ==
    IF scale <= 0 THEN NaN
    ELSE IF x >= loc THEN Num(PhiUnit - PhiUpper(x - loc, scale), PhiUnit)
    ELSE Num(PhiUpper(loc - x, scale), PhiUnit)

norm_cdf(x, loc, scale) ==
    IF scale <= 0 THEN NaN
    ELSE IF x >= loc THEN Num(PhiUpper(x - loc, scale), PhiUnit)
    ELSE Num(PhiUnit - PhiUpper(loc - x, scale), PhiUnit)

(***************************************************************************)
(* calculate_child_percentiles(child_weight_data, weight_offset)           *)
(***************************************************************************)

\* child_weight_data.iloc[-1]['life_days'].days
most_recent_day(frame) == frame[Len(frame)].life_days

\* DataFrame.iloc[k]: a negative k counts from the end; outside
\* -len .. len-1 it raises IndexError.  The row's 1-based position, 0 for
\* the exception.
iloc(table, k) ==
    IF k >= Len(table) \/ k < -Len(table) THEN 0
    ELSE IF k < 0 THEN Len(table) + k + 1
    ELSE k + 1

calculate_child_percentiles(table, frame, weight_offset) ==
    LET day == most_recent_day(frame)
        r == iloc(table, day)
        loc == table[r].SD0
        scale == table[r].SD0 - table[r].SD1neg
    IN IF r = 0 THEN [status |-> "IndexError", percentile |-> NaN]
       ELSE [status |-> "ok",
             percentile |-> norm_cdf(frame[Len(frame)].measured_weight,
                                     loc + weight_offset, scale)]

(***************************************************************************)
(* plot(child_weight_data, mode): the panels it draws.  Each panel is one  *)
(* call of _percentile_plot: the sigma bands shifted by offset and the     *)
(* legend with calculate_child_percentiles(child_weight_data, offset).     *)
(***************************************************************************)

\* child_weight_data['measured_weight'][0] - self._growth_data['SD0'][0]
child_diff2mean(table, frame) == frame[1].measured_weight - table[1].SD0

_percentile_plot(table, frame, color, offset, name) ==
    [color |-> color, name |-> name, offset |-> offset,
     legend |-> calculate_child_percentiles(table, frame, offset)]

\* the calls of _percentile_plot that plot makes, in order
plot_calls(table, frame, mode, name) ==
    IF mode = "WHO_only"
    THEN <<_percentile_plot(table, frame, "C0", 0, "WHO mean")>>
    ELSE IF mode = "child_specific"
    THEN <<_percentile_plot(table, frame, "C1", 0, name)>>
    ELSE IF mode = "both"
    THEN <<_percentile_plot(table, frame, "C0", 0, "WHO mean"),
           _percentile_plot(table, frame, "C1", child_diff2mean(table, frame), name)>>
    ELSE <<>>

\* the panels finished before the first call that raises
RECURSIVE Finished(_)
Finished(ps) ==
    IF ps = <<>> \/ ps[1].legend.status # "ok" THEN <<>>
    ELSE <<ps[1]>> \o Finished(Tail(ps))

(***************************************************************************)
(* State.  pc is the position of the calling script: "new" before the      *)
(* Child is constructed, "constructed" after, "loaded" once a weight file  *)
(* is imported, "shown" after plot, "aborted" after an uncaught exception. *)
(* calls logs the calls of calculate_child_percentiles, panels is what the *)
(* last plot drew, raised the exception that ended the session.            *)
(***************************************************************************)
NoTable == <<>>
NoFrame == <<>>

\* the files of at most n samples over the given dates and weights
Files(n, dates, weights) ==
    UNION {[1..m -> [date : dates, measured_weight : weights]] : m \in 0..n}

Init ==
    /\ pc = "new"
    /\ gender = "unset"
    /\ growth_data = NoTable
    /\ fetched = <<>>
    /\ weight_data = NoFrame
    /\ calls = <<>>
    /\ panels = [mode |-> "unset", drawn |-> <<>>]
    /\ raised = "none"

\* Child.__init__(gender, birthday, name)
Construct_fetch_first(g) ==
    /\ pc = "new"
    /\ gender' = g
    /\ LET url == IF g = "male" THEN boys_url ELSE girls_url
       IN /\ fetched' = Append(fetched, url)
          /\ growth_data' \in read_csv(url)
    /\ IF g \in {"male", "female"}
       THEN pc' = "constructed" /\ raised' = raised
       ELSE pc' = "aborted" /\ raised' = "ValueError"
    /\ UNCHANGED <<weight_data, calls, panels>>

Construct(g) ==
    /\ pc = "new"
    /\ gender' = g
    /\ IF g = "male"
       THEN /\ fetched' = Append(fetched, boys_url)
            /\ growth_data' \in read_csv(boys_url)
            /\ pc' = "constructed"
            /\ raised' = raised
       ELSE IF g = "female"
       THEN /\ fetched' = Append(fetched, girls_url)
            /\ growth_data' \in read_csv(girls_url)
            /\ pc' = "constructed"
            /\ raised' = raised
       ELSE /\ raised' = "ValueError"
            /\ pc' = "aborted"
            /\ UNCHANGED <<fetched, growth_data>>
    /\ UNCHANGED <<weight_data, calls, panels>>

\* weight_data = Child.import_weight_data(weight_file)
Import(raw) ==
    /\ weight_data = NoFrame
    /\ LET res == import_weight_data(raw)
       IN IF res.status = "ok"
          THEN /\ weight_data' = res.frame
               /\ pc' = "loaded"
               /\ raised' = raised
          ELSE /\ raised' = res.status
               /\ pc' = "aborted"
               /\ weight_data' = weight_data
    /\ UNCHANGED <<gender, growth_data, fetched, calls, panels>>

\* child.calculate_child_percentiles(frame, weight_offset)
Calculate(frame, weight_offset) ==
    /\ Len(calls) < MaxCalls
    /\ LET res == calculate_child_percentiles(growth_data, frame, weight_offset)
       IN /\ calls' = Append(calls,
                 [most_recent_day |-> most_recent_day(frame),
                  measured_weight |-> frame[Len(frame)].measured_weight,
                  row |-> iloc(growth_data, most_recent_day(frame)),
                  weight_offset |-> weight_offset,
                  status |-> res.status,
                  percentile |-> res.percentile])
          /\ raised' = IF res.status = "ok" THEN raised ELSE res.status
          /\ pc' = IF res.status = "ok" THEN pc ELSE "aborted"
    /\ UNCHANGED <<gender, growth_data, fetched, weight_data, panels>>

\* child.plot(weight_data, mode=mode)
Plot(mode) ==
    /\ pc = "loaded"
    /\ LET ps == plot_calls(growth_data, weight_data, mode, "child")
           done == Finished(ps)
       IN /\ panels' = [mode |-> mode, drawn |-> done]
          /\ raised' = IF Len(done) = Len(ps) THEN raised ELSE "IndexError"
          /\ pc' = IF Len(done) = Len(ps) THEN "shown" ELSE "aborted"
    /\ UNCHANGED <<gender, growth_data, fetched, weight_data, calls>>

SessionConstruct == \E g \in Genders : Construct(g)

SessionImport ==
    /\ pc = "constructed"
    /\ \E raw \in Files(MaxSessionLen, SessionDates, SessionWeights) : Import(raw)

SessionCalculate ==
    /\ pc = "loaded"
    /\ \E off \in Offsets : Calculate(weight_data, off)

SessionPlot == \E mode \in Modes : Plot(mode)

Next == SessionConstruct \/ SessionImport \/ SessionCalculate \/ SessionPlot

Spec == Init /\ [][Next]_vars

(***************************************************************************)
(* import_weight_data alone (it is a static method), over every file of at *)
(* most MaxLen samples.                                                    *)
(***************************************************************************)
ImportFile ==
    /\ pc = "new"
    /\ \E raw \in Files(MaxLen, Dates, Weights) : Import(raw)

NextSeries == ImportFile

SpecSeries == Init /\ [][NextSeries]_vars

(***************************************************************************)
(* calculate_child_percentiles alone, on a constructed Child: MaxCalls     *)
(* calls on frames that differ in their last sample.                       *)
(***************************************************************************)
LastSampleFiles ==
    {<<[date |-> 0, measured_weight |-> w]>> : w \in {38, 40, 43, 45}}
    \cup {<<[date |-> 7, measured_weight |-> 40], [date |-> 7 + d, measured_weight |-> w]>> :
             d \in {6, 13}, w \in {38, 40, 43, 45}}

LastSampleFrames ==
    {import_weight_data(raw).frame :
        raw \in {r \in LastSampleFiles : import_weight_data(r).status = "ok"}}

InitPercentile ==
    /\ pc = "constructed"
    /\ gender \in {"male", "female"}
    /\ fetched = <<IF gender = "male" THEN boys_url ELSE girls_url>>
    /\ growth_data \in read_csv(fetched[1])
    /\ weight_data = NoFrame
    /\ calls = <<>>
    /\ panels = [mode |-> "unset", drawn |-> <<>>]
    /\ raised = "none"

CalculateOn ==
    /\ pc = "constructed"
    /\ \E frame \in LastSampleFrames, off \in Offsets : Calculate(frame, off)

NextPercentile == CalculateOn

SpecPercentile == InitPercentile /\ [][NextPercentile]_vars

(***************************************************************************)
(* Properties.  They read the state only: the frame in weight_data, the    *)
(* log in calls, the panels.                                               *)
(***************************************************************************)
Loaded == weight_data # NoFrame

\* the samples came in chronological order
Chronological ==
    \A i \in 1..(Len(weight_data) - 1) : weight_data[i].date <= weight_data[i+1].date

Age(i) == weight_data[i].measurement_days

\* the samples whose age lies in [Age(i) - 6, Age(i)]
Window(i) == {j \in 1..Len(weight_data) : Age(i) - 6 <= Age(j) /\ Age(j) <= Age(i)}

RECURSIVE IntSum(_)
IntSum(S) ==
    IF S = {} THEN 0
    ELSE LET j == CHOOSE x \in S : TRUE
         IN weight_data[j].weight_gain.n + IntSum(S \ {j})

\* the sum of weight_gain over a set of samples: missing as soon as one
\* of the gains is
ExactSum(S) ==
    IF \E j \in S : weight_data[j].weight_gain.k = "nan" THEN NaN
    ELSE [k |-> "num", n |-> IntSum(S), d |-> 1]

\* the sparse-sampling case: the sample is alone in its window and the
\* one before it is more than 6 days back
Sparse(i) == i >= 2 /\ Cardinality(Window(i)) = 1 /\ Age(i) - Age(i-1) > 6

\* C1: for a chronological file, the weekly gain of a sample is the sum of
\* the gains in its trailing window when the window holds two samples or
\* more, the daily rate of the sample in the sparse-sampling case, and the
\* window sum in every case that is not the sparse one.
C1_WeeklyGainIsWindowSumOrRate ==
    (Loaded /\ Chronological) =>
        \A i \in 1..Len(weight_data) :
            /\ Cardinality(Window(i)) >= 2 =>
                  weight_data[i].weekly_weight_gain = ExactSum(Window(i))
            /\ Sparse(i) =>
                  weight_data[i].weekly_weight_gain = weight_data[i].daily_weight_gain
            /\ ~Sparse(i) =>
                  weight_data[i].weekly_weight_gain = ExactSum(Window(i))

C1_Witness ==
    /\ Loaded /\ Chronological /\ Len(weight_data) = 3
    /\ Sparse(2)
    /\ weight_data[2].weekly_weight_gain = weight_data[2].daily_weight_gain
    /\ weight_data[2].daily_weight_gain # weight_data[2].weight_gain
    /\ Window(3) = {2, 3}
    /\ weight_data[3].weekly_weight_gain.k = "num"
    /\ weight_data[3].weekly_weight_gain.n =
           weight_data[2].weight_gain.n + weight_data[3].weight_gain.n
    /\ weight_data[3].weight_gain.n # 0 /\ weight_data[2].weight_gain.n # 0

\* the file (day 0, 4.0), (day 7, 4.3), (day 14, 4.3)
ScenarioFile ==
    /\ Len(weight_data) = 3
    /\ \A i \in 1..3 : weight_data[i].date = 7 * (i - 1)
    /\ weight_data[1].measured_weight = 40
    /\ weight_data[2].measured_weight = 43
    /\ weight_data[3].measured_weight = 43

ScenarioGains ==
    /\ weight_data[1].weight_gain = NaN
    /\ weight_data[2].weight_gain = [k |-> "num", n |-> 3, d |-> 1]
    /\ weight_data[3].weight_gain = [k |-> "num", n |-> 0, d |-> 1]
    /\ weight_data[1].daily_weight_gain = NaN
    /\ weight_data[2].daily_weight_gain = [k |-> "num", n |-> 3, d |-> 1]
    /\ weight_data[3].daily_weight_gain = [k |-> "num", n |-> 0, d |-> 1]
    /\ weight_data[2].weekly_weight_gain = [k |-> "num", n |-> 3, d |-> 1]

\* C2 as stated: on the scenario file the gains are [missing, 0.3, 0.0],
\* the daily rates [missing, 0.3, 0.0], and the weekly gain is 0.3 at
\* sample 1 and 0.3 at sample 2.
C2_Original ==
    ScenarioFile =>
        /\ ScenarioGains
        /\ weight_data[3].weekly_weight_gain = [k |-> "num", n |-> 3, d |-> 1]

\* C2 amended: on the scenario file the gains are [missing, 0.3, 0.0], the
\* daily rates [missing, 0.3, 0.0], the weekly gain is 0.3 at sample 1, and
\* at sample 2 it is 0.0, the daily rate of that sample.
C2_ScenarioWeeklyGain ==
    ScenarioFile =>
        /\ ScenarioGains
        /\ weight_data[3].weekly_weight_gain = [k |-> "num", n |-> 0, d |-> 1]

C2_Witness == ScenarioFile /\ Sparse(2) /\ Sparse(3)

\* C3: a sample recorded on the same day as the one before it never gets
\* an infinite daily rate (the quotient of a gain by zero days).
C3_NoDivisionByZero ==
    Loaded =>
        \A i \in 2..Len(weight_data) :
            Age(i) = Age(i-1) => weight_data[i].daily_weight_gain.k # "inf"

\* C7: the first sample of an imported file has a missing weight gain and
\* a missing daily rate, never the number zero.
C7_FirstGainMissing ==
    Loaded =>
        /\ weight_data[1].weight_gain.k = "nan"
        /\ weight_data[1].daily_weight_gain.k = "nan"

C7_Witness ==
    /\ Loaded /\ Len(weight_data) >= 2
    /\ weight_data[1].weight_gain = NaN
    /\ weight_data[2].weight_gain.k = "num"
    /\ weight_data[2].weight_gain.n = 0

\* C10: for a chronological file, every sample at most 6 days after the
\* first one (the first one included) has a missing weekly gain.
C10_EarlyWeeklyGainMissing ==
    (Loaded /\ Chronological) =>
        \A i \in 1..Len(weight_data) :
            Age(i) <= 6 => weight_data[i].weekly_weight_gain.k = "nan"

C10_Witness ==
    /\ Loaded /\ Chronological /\ Len(weight_data) = 3
    /\ Age(2) = 6 /\ weight_data[2].weight_gain.n # 0
    /\ weight_data[1].weekly_weight_gain = NaN
    /\ weight_data[2].weekly_weight_gain = NaN
    /\ Age(3) > 6 /\ weight_data[3].weekly_weight_gain.k = "num"

\* the scale calculate_child_percentiles uses for a logged call
CallScale(c) == growth_data[c.row].SD0 - growth_data[c.row].SD1neg

\* the location it uses
CallLoc(c) == growth_data[c.row].SD0 + c.weight_offset

\* x <= y for two percentiles (fractions whose denominators divide PhiUnit)
FLeq(x, y) == x.n * (PhiUnit \div x.d) <= y.n * (PhiUnit \div y.d)

\* C4: calculate_child_percentiles raises a range error whenever the age
\* of the last sample is negative or above the last day of the table, and
\* succeeds on the last day of the table.
C4_OutOfRangeAgeFails ==
    \A i \in 1..Len(calls) :
        LET c == calls[i]
        IN /\ (c.most_recent_day < 0 \/ c.most_recent_day > NumRefDays - 1) =>
                  c.status = "IndexError"
           /\ c.most_recent_day = NumRefDays - 1 => c.status = "ok"

\* C5: when the reference row of the last sample's age has SD0 = SD1neg
\* (scale 0), calculate_child_percentiles raises and returns nothing.
C5_DegenerateRowFails ==
    \A i \in 1..Len(calls) :
        (calls[i].row # 0 /\ CallScale(calls[i]) = 0) => calls[i].status # "ok"

\* C6: a gender other than 'male' and 'female' raises ValueError and no
\* table is fetched; 'male' and 'female' fetch the table of that gender,
\* once, and set the reference table.
C6_GenderSelectsTable ==
    /\ gender \notin {"unset", "male", "female"} =>
          /\ raised = "ValueError"
          /\ fetched = <<>>
          /\ growth_data = NoTable
    /\ gender = "male" => (fetched = <<boys_url>> /\ growth_data # NoTable)
    /\ gender = "female" => (fetched = <<girls_url>> /\ growth_data # NoTable)

C6_Witness ==
    /\ gender = "diverse"
    /\ pc = "aborted"
    /\ raised = "ValueError"
    /\ fetched = <<>>

\* C8: mode 'child_specific' draws its panel with the offset first weight
\* minus reference mean at day 0, 'WHO_only' with offset 0, and 'both'
\* draws the left panel with offset 0 and the right one with that offset.
C8_ChildSpecificUsesOffset ==
    LET diff == weight_data[1].measured_weight - growth_data[1].SD0
        n == Len(panels.drawn)
    IN /\ (panels.mode = "WHO_only" /\ n >= 1) => panels.drawn[1].offset = 0
       /\ (panels.mode = "child_specific" /\ n >= 1) => panels.drawn[1].offset = diff
       /\ (panels.mode = "both" /\ n >= 1) => panels.drawn[1].offset = 0
       /\ (panels.mode = "both" /\ n >= 2) => panels.drawn[2].offset = diff

\* C9: on a well-formed row (SD0 > SD1neg), with the table and the offset
\* fixed, a larger last weight never gets a smaller percentile; a last
\* weight equal to mean + offset gets 0.5, one scale above it Phi(1) and
\* one scale below it Phi(-1).
C9_PercentileMonotone ==
    \A i, j \in 1..Len(calls) :
        LET c == calls[i]
            e == calls[j]
        IN (c.status = "ok" /\ CallScale(c) > 0) =>
              /\ c.percentile.k = "num"
              /\ c.measured_weight = CallLoc(c) =>
                    c.percentile = [k |-> "num", n |-> 1, d |-> 2]
              /\ c.measured_weight = CallLoc(c) + CallScale(c) =>
                    c.percentile = [k |-> "num", n |-> 42067, d |-> 50000]
              /\ c.measured_weight = CallLoc(c) - CallScale(c) =>
                    c.percentile = [k |-> "num", n |-> 7933, d |-> 50000]
              /\ (/\ e.status = "ok"
                  /\ e.row = c.row
                  /\ e.weight_offset = c.weight_offset
                  /\ c.measured_weight <= e.measured_weight) =>
                    FLeq(c.percentile, e.percentile)

C9_Witness ==
    /\ Len(calls) = 2
    /\ calls[1].status = "ok" /\ calls[2].status = "ok"
    /\ calls[1].row = calls[2].row
    /\ calls[1].weight_offset = calls[2].weight_offset
    /\ calls[1].weight_offset # 0
    /\ CallScale(calls[1]) > 0
    /\ calls[1].measured_weight = CallLoc(calls[1])
    /\ calls[1].measured_weight < calls[2].measured_weight
    /\ calls[1].percentile = [k |-> "num", n |-> 1, d |-> 2]
    /\ ~FLeq(calls[2].percentile, calls[1].percentile)

====
